---- MODULE Spec2Model ----
(***************************************************************************)
(* ThreeSixty backend: trip lifecycle, location ingestion with telemetry,  *)
(* attendance (face scan / manual) and their storage, as a state machine.  *)
(*                                                                         *)
(* The database tables are the shared state.  Every request is served by   *)
(* a worker; a worker runs one handler at a time, and the handler's        *)
(* database statements are its atomic steps (there is no transaction       *)
(* around a handler and no row lock: see the sources named in              *)
(* MODEL_MAP.json).  Model instances a handler holds in memory (the Trip   *)
(* it fetched, the Bus cached on it) are the worker's local state.         *)
(***************************************************************************)
EXTENDS Integers, Sequences, FiniteSets, Bags, TLC

(* ------------------------------ bounds -------------------------------- *)
\* Total number of requests / socket messages handled in one behaviour.
MaxCalls == 3
\* The wall clock stops advancing at this tick.
MaxTime == 1
\* No more client messages are handled once a socket was sent this many.
MaxInbox == 2

(* --------------------------- reference data --------------------------- *)
Workers == {"w1", "w2"}
Buses == {"b1", "b2"}
Routes == {"r1"}
Students == {"s1", "s2"}
EventTypes == {"checkin", "checkout"}
\* Points on the 0-meridian; coordinates in units of 0.01 degree.
Points == {<<0, 0>>, <<1, 0>>, <<2, 0>>}
\* One clock tick, in seconds.
TickSeconds == 90

\* TripStatus choices.
SCHEDULED == "scheduled"
IN_PROGRESS == "in_progress"
COMPLETED == "completed"
CANCELLED == "cancelled"
TripStatus == {SCHEDULED, IN_PROGRESS, COMPLETED, CANCELLED}

\* A nullable column is a sequence of length 0 (NULL) or 1.
Null == <<>>
Some(x) == <<x>>

\* Student rows: both students are active and ride route r1.
StudentRoute == [s \in Students |-> "r1"]
ActiveStudentsOn(r) == {s \in Students : StudentRoute[s] = r}

\* Parent rows (student, user, is_active) and the users' push tokens.
Users == {"u1", "u2", "u3", "a1", "a2", "a3", "a4", "a5", "k1"}
Parents == <<[student |-> "s1", user |-> "u1", is_active |-> TRUE],
             [student |-> "s2", user |-> "u2", is_active |-> TRUE],
             [student |-> "s2", user |-> "u3", is_active |-> FALSE]>>
HasFcmToken == [u \in Users |-> u = "u1"]

\* FaceEncoding rows: one scalar per template, in tenths (a stand-in for the
\* 128-d vector; face_distance is the absolute difference).
FaceEncodings == <<[student_id |-> "s1", encoding |-> 0],
                   [student_id |-> "s2", encoding |-> 10],
                   [student_id |-> "s2", encoding |-> 4]>>
\* A scan photo is the sequence of the encodings of the faces in it.
Photos == {<<>>, <<1>>, <<5>>, <<14>>, <<5, 1>>}

\* Schools; every bus (and so every trip) belongs to school sc1.
Schools == {"sc1", "sc2"}
BusSchool == [b \in Buses |-> "sc1"]
\* SchoolMembership rows (user, school, role, is_active).
Memberships ==
    <<[user |-> "a1", school |-> "sc1", role |-> "school_admin", is_active |-> TRUE],
      [user |-> "a2", school |-> "sc1", role |-> "office_staff", is_active |-> TRUE],
      [user |-> "a3", school |-> "sc1", role |-> "school_admin", is_active |-> FALSE],
      [user |-> "a4", school |-> "sc1", role |-> "teacher", is_active |-> TRUE],
      [user |-> "a5", school |-> "sc2", role |-> "school_admin", is_active |-> TRUE],
      [user |-> "k1", school |-> "sc1", role |-> "conductor", is_active |-> TRUE]>>
\* Users whose User.role passes IsSchoolAdmin and who see the alerts of sc1.
SchoolAdmins == {"a1", "a3"}

\* EmergencyStatus choices.
ACTIVE == "active"
ACKNOWLEDGED == "acknowledged"
RESPONDING == "responding"
RESOLVED == "resolved"
FALSE_ALARM == "false_alarm"
EmergencyStatus == {ACTIVE, ACKNOWLEDGED, RESPONDING, RESOLVED, FALSE_ALARM}
\* Values of the resolution_notes field of a resolve request.
Notes == {"", "checked"}

\* A route with two stops, numbered 1 and 2 (unique_together route, sequence).
DefaultStops == (1 :> <<0, 0>>) @@ (2 :> <<2, 0>>)

\* Websocket connections and the user in each one's scope (Null: the
\* AnonymousUser of a request that carried no valid token).
Conns == {"c1", "c2"}
ConnUser == [c \in Conns |-> IF c = "c1" THEN Some("u1") ELSE Null]
\* The trip ids a client can put in ws/trip/<trip_id>/ (any id, stored or not).
TripTopics == 1..(MaxCalls + 1)

VARIABLES
    now,            \* wall clock, in ticks
    trips,          \* table trips: sequence of rows, id = index
    buses,          \* table buses: telemetry columns per bus
    locations,      \* table location_updates, in creation order
    attendance,     \* table attendance: a bag of rows (nothing reads their order)
    notifications,  \* table notifications: a bag of rows
    pc,             \* per worker: the statement it is at
    frame,          \* per worker: the handler's arguments and in-memory objects
    resp,           \* the response sent by the step just taken, if any
    calls,          \* number of handlers begun so far
    alerts,         \* table emergency_alerts: sequence of rows, id = index
    conns,          \* per websocket connection: "new", "open" or "closed"
    groups,         \* the channel layer's groups: per topic, the connections in it
    inbox,          \* per connection: the bag of messages sent down the socket
    FACE_RECOGNITION_AVAILABLE,  \* face_recognition.py: the library was imported
    FIREBASE_INITIALIZED,        \* services.py: firebase_admin was initialised
    stops           \* table stops of route r1: sequence number -> <<latitude, longitude>>

\* What no request handler writes: the two module-level flags, set once when
\* the process imports the modules, and the stops, edited in the admin site.
env == <<FACE_RECOGNITION_AVAILABLE, FIREBASE_INITIALIZED, stops>>

\* The websocket side: connections, group membership, messages delivered.
sockets == <<conns, groups, inbox>>

vars == <<now, trips, buses, locations, attendance, notifications,
          pc, frame, resp, calls, alerts, env, sockets>>

db == <<trips, buses, locations, attendance, notifications>>

(* ------------------------------ helpers ------------------------------- *)
TripIds == 1..Len(trips)

NoFrame == [op |-> "none"]
NoResp == [worker |-> "none", op |-> "none", code |-> 0, detail |-> "none"]

\* A worker moves to statement l, keeping its frame.
Goto(w, l) == pc' = [pc EXCEPT ![w] = l]

\* The handler of worker w ends with response r.
Respond(w, r) ==
    /\ pc' = [pc EXCEPT ![w] = "idle"]
    /\ resp' = [worker |-> w] @@ r
    /\ frame' = [frame EXCEPT ![w] = NoFrame]

\* channel_layer.group_send(group, message): one copy of the message for
\* every connection that is in the group now; box is the deliveries so far.
group_send(box, members, message) ==
    [c \in Conns |-> IF c \in members THEN box[c] (+) SetToBag({message}) ELSE box[c]]

\* The 'location_update' event of a LocationUpdate row.  The timestamp is
\* created_at, which the database keeps to the microsecond: the row's number
\* stands for the part of it below one tick.
LocationMessage(t, location, id) ==
    [type |-> "location_update", trip |-> t,
     point |-> <<location.latitude, location.longitude>>,
     timestamp |-> <<location.created_at, id>>]

\* The 'trip_event' events (trip_started, trip_ended) sent to user groups.
TripEventMessage(event_type, t) ==
    [type |-> event_type, trip |-> t, point |-> <<>>, timestamp |-> <<>>]

\* StartTripView.post / EndTripView.post: the users of all Parent rows of the
\* active students on the route ("student.parents.all()", "if parent.user").
ParentUserIds(r) ==
    {Parents[i].user : i \in {j \in 1..Len(Parents) : Parents[j].student \in ActiveStudentsOn(r)}}

\* One group_send per parent user id, each to the group user_<id>; a
\* connection is in the group of its own user only.
SendTripEvent(event_type, t, r) ==
    group_send(inbox, UNION {groups.user[u] : u \in ParentUserIds(r)},
               TripEventMessage(event_type, t))

\* A worker picks up a new request.
Begin(w) ==
    /\ pc[w] = "idle"
    /\ calls < MaxCalls
    /\ calls' = calls + 1

\* Trip.objects.create(...) as StartTripSerializer.create fills it.
NewTrip(b, r) ==
    [bus |-> b, route |-> r, status |-> IN_PROGRESS,
     started_at |-> Some(now), ended_at |-> Null,
     total_students |-> Cardinality(ActiveStudentsOn(r)),
     students_boarded |-> 0, students_dropped |-> 0,
     distance_traveled |-> 0, duration_minutes |-> 0]

\* A trip row that exists before any request: created through the admin site
\* (scheduled, cancelled) or directly, as scripts/test_telemetry.py does
\* (in progress, started now).
SeedTrip(s) ==
    [NewTrip("b1", "r1") EXCEPT
        !.status = s,
        !.started_at = IF s = IN_PROGRESS THEN Some(0) ELSE Null]

\* The channel layer with no group: group_add creates a group on first use.
NoGroups ==
    [trip |-> [t \in TripTopics |-> {}],
     bus_profile |-> [b \in Buses |-> {}],
     user |-> [u \in Users |-> {}]]

\* Everything but the trips table and the import-time flags: empty tables,
\* idle workers, no websocket connected.
InitStore ==
    /\ now = 0
    /\ buses = [b \in Buses |-> [total_distance_km |-> 0, total_duration_hours |-> 0]]
    /\ locations = <<>>
    /\ attendance = EmptyBag
    /\ notifications = EmptyBag
    /\ alerts = <<>>
    /\ pc = [w \in Workers |-> "idle"]
    /\ frame = [w \in Workers |-> NoFrame]
    /\ resp = NoResp
    /\ calls = 0
    /\ conns = [c \in Conns |-> "new"]
    /\ groups = NoGroups
    /\ inbox = [c \in Conns |-> EmptyBag]

\* A deployment with the face_recognition library installed and Firebase
\* credentials configured; the trip is in any status a start can meet.
Init ==
    /\ InitStore
    /\ trips \in {<<SeedTrip(s)>> : s \in {SCHEDULED, IN_PROGRESS, CANCELLED}}
    /\ FACE_RECOGNITION_AVAILABLE = TRUE
    /\ FIREBASE_INITIALIZED = TRUE
    /\ stops = DefaultStops

(* ----------------------------- trip start ----------------------------- *)
\* StartTripSerializer.create, first half: Bus and Route are found, then
\* "if Trip.objects.filter(bus=bus, status=IN_PROGRESS).exists(): raise".
HasActiveTrip(b) == \E t \in TripIds : trips[t].bus = b /\ trips[t].status = IN_PROGRESS

StartTrip_Check(w, b, r) ==
    /\ Begin(w)
    /\ IF HasActiveTrip(b)
         THEN Respond(w, [op |-> "start", code |-> 400,
                          detail |-> "This bus already has an active trip."])
         ELSE /\ frame' = [frame EXCEPT ![w] = [op |-> "start", bus |-> b, route |-> r]]
              /\ Goto(w, "start_create")
              /\ resp' = NoResp
    /\ UNCHANGED <<now, db, alerts, env, sockets>>

\* StartTripSerializer.create, second half (Trip.objects.create), then
\* StartTripView.post broadcasts trip_started to the parents' user groups;
\* sent = FALSE is group_send raising in the channel layer.
StartTrip_Create(w, sent) ==
    /\ pc[w] = "start_create"
    /\ trips' = Append(trips, NewTrip(frame[w].bus, frame[w].route))
    /\ IF sent
         THEN /\ Respond(w, [op |-> "start", code |-> 201, detail |-> "created"])
              /\ inbox' = SendTripEvent("trip_started", Len(trips) + 1, frame[w].route)
         ELSE /\ Respond(w, [op |-> "start", code |-> 500, detail |-> "group_send raised"])
              /\ inbox' = inbox
    /\ UNCHANGED <<now, buses, locations, attendance, notifications, calls, alerts, env, conns, groups>>

(* ------------------------------ trip end ------------------------------ *)
\* What the client is sent of a Trip (the columns the properties read).
TripBody(trip) == [status |-> trip.status, ended_at |-> trip.ended_at]

\* A guard that ends whatever is not completed (no check for IN_PROGRESS).
EndTripGuard_AnyStatus(status) == IF status = COMPLETED THEN "done" ELSE "go"

\* A guard without the "already completed" success.
EndTripGuard_NotIdempotent(status) == IF status # IN_PROGRESS THEN "bad" ELSE "go"

\* EndTripView.post, the checks before the serializer runs:
\* "done" (already completed: success), "bad" (400) or "go" (end it).
EndTripGuard(status) ==
    IF status = COMPLETED THEN "done"
    ELSE IF status # IN_PROGRESS THEN "bad"
    ELSE "go"

\* EndTripView.post up to the serializer: Trip.objects.get(pk=pk) and the checks.
EndTrip_Get(w, t) ==
    /\ Begin(w)
    /\ IF t \notin TripIds
         THEN Respond(w, [op |-> "end", code |-> 404, detail |-> "Trip not found", trip |-> t])
         ELSE CASE EndTripGuard(trips[t].status) = "done" ->
                     Respond(w, [op |-> "end", code |-> 200, detail |-> "already completed",
                                 trip |-> t, body |-> TripBody(trips[t])])
                [] EndTripGuard(trips[t].status) = "bad" ->
                     Respond(w, [op |-> "end", code |-> 400, detail |-> "Cannot end trip",
                                 trip |-> t])
                [] OTHER ->
                     /\ frame' = [frame EXCEPT ![w] =
                            [op |-> "end", trip |-> t, tripObj |-> trips[t]]]
                     /\ Goto(w, "end_save")
                     /\ resp' = NoResp
    /\ UNCHANGED <<now, db, alerts, env, sockets>>

\* EndTripSerializer.update on the instance the view fetched, then the view's
\* trip_ended broadcast (sent = FALSE: group_send raised) and the response.
EndTrip_Save(w, sent) ==
    /\ pc[w] = "end_save"
    /\ LET t == frame[w].trip
           instance == [frame[w].tripObj EXCEPT !.status = COMPLETED,
                                                !.ended_at = Some(now)]
       IN /\ trips' = [trips EXCEPT ![t].status = instance.status,
                                    ![t].ended_at = instance.ended_at]
          /\ IF sent
               THEN /\ Respond(w, [op |-> "end", code |-> 200, detail |-> "ended",
                                   trip |-> t, body |-> TripBody(instance)])
                    /\ inbox' = SendTripEvent("trip_ended", t, instance.route)
               ELSE /\ Respond(w, [op |-> "end", code |-> 500, detail |-> "group_send raised",
                                   trip |-> t])
                    /\ inbox' = inbox
    /\ UNCHANGED <<now, buses, locations, attendance, notifications, calls, alerts, env, conns, groups>>

(* ---------------------------- geometry -------------------------------- *)
\* Radius of the earth in kilometres.
EarthRadiusKm == 6371

Abs(x) == IF x < 0 THEN -x ELSE x

\* Integer square root, searched up to the bound hi.
ISqrt(n, hi) == CHOOSE r \in 0..hi : r * r <= n /\ (r + 1) * (r + 1) > n

\* calculate_distance(lat1, lon1, lat2, lon2) of apps/transport/utils.py: the
\* haversine great-circle distance with radius 6371 km.  Coordinates are in
\* 0.01 degree and close to (0, 0), where the formula reduces to
\* R * (pi / 180) * sqrt(dlat^2 + dlon^2); pi is 355/113 and the result is
\* in units of 0.01 km (the two decimals the aggregates' columns keep).
calculate_distance(p, q) ==
    LET dlat == Abs(p[1] - q[1])
        dlon == Abs(p[2] - q[2])
        chord == ISqrt(10000 * (dlat * dlat + dlon * dlon), 100 * (dlat + dlon))
    IN (EarthRadiusKm * 355 * chord + 1017000) \div 2034000

(* ------------------------ location ingestion -------------------------- *)
\* trip.location_updates.first() under Meta.ordering = ['-created_at'].
LatestLocation(t) ==
    LET idx == {i \in 1..Len(locations) : locations[i].trip = t}
    IN IF idx = {} THEN Null
       ELSE Some(locations[CHOOSE i \in idx : \A j \in idx : j <= i])

\* LocationUpdate.objects.create(trip=trip, bus=..., latitude, longitude).
NewLocation(t, b, pt) ==
    [trip |-> t, bus |-> b, latitude |-> pt[1], longitude |-> pt[2], created_at |-> now]

PointOf(l) == <<l.latitude, l.longitude>>

\* The view's last statements: the second group_send of the point to
\* trip_<id> (sent = FALSE: it raised), then the 200 response; log is what
\* the handler printed, box the deliveries up to here.
LocationResponse(w, t, sent, log, box, message) ==
    IF sent
      THEN /\ Respond(w, [op |-> "location", code |-> 200, detail |-> "Location updated",
                          trip |-> t, log |-> log])
           /\ inbox' = group_send(box, groups.trip[t], message)
      ELSE /\ Respond(w, [op |-> "location", code |-> 500, detail |-> "group_send raised",
                          trip |-> t, log |-> log])
           /\ inbox' = box

\* The lookup without its status filter.
ActiveTripFound_AnyStatus(t) == t \in TripIds

\* UpdateLocationView.post: Trip.objects.get(pk=pk, status=IN_PROGRESS).
ActiveTripFound(t) == t \in TripIds /\ trips[t].status = IN_PROGRESS

UpdateLocation_GetTrip(w, t, pt) ==
    /\ Begin(w)
    /\ IF ActiveTripFound(t)
         THEN /\ frame' = [frame EXCEPT ![w] =
                    [op |-> "location", trip |-> t, tripObj |-> trips[t], point |-> pt]]
              /\ Goto(w, "loc_create")
              /\ resp' = NoResp
         ELSE Respond(w, [op |-> "location", code |-> 404, detail |-> "Active trip not found",
                          trip |-> t, log |-> "none"])
    /\ UNCHANGED <<now, db, alerts, env, sockets>>

\* The aggregates change only past "if previous_location:" and "if dist > 0:".
TelemetryDue(previous, location) ==
    /\ previous # Null
    /\ calculate_distance(PointOf(previous[1]), PointOf(location)) > 0

\* UpdateLocationView.post: previous_location = trip.location_updates.first(),
\* then serializer.save() = UpdateLocationSerializer.create (the row, which
\* loads trip.bus, then a group_send to trip_<id>; sent1 = FALSE: it raised and
\* the request ends in a 500 with the row stored).  When no aggregate is due
\* the handler goes on to its last statements.
UpdateLocation_Create(w, sent1, sent2) ==
    /\ pc[w] = "loc_create"
    /\ LET t == frame[w].trip
           b == frame[w].tripObj.bus
           previous == LatestLocation(t)
           location == NewLocation(t, b, frame[w].point)
           message == LocationMessage(t, location, Len(locations) + 1)
           box == group_send(inbox, groups.trip[t], message)
       IN /\ locations' = Append(locations, location)
          /\ IF ~sent1
               THEN LocationResponse(w, t, FALSE, "none", inbox, message)
               ELSE IF TelemetryDue(previous, location)
                      THEN /\ frame' = [frame EXCEPT ![w] =
                                  [op |-> "location", trip |-> t, tripObj |-> @.tripObj,
                                   busObj |-> buses[b], previous |-> previous,
                                   location |-> location, message |-> message]]
                           /\ Goto(w, "loc_trip_stats")
                           /\ resp' = NoResp
                           /\ inbox' = box
                      ELSE LocationResponse(w, t, sent2, "none", box, message)
    /\ UNCHANGED <<now, trips, buses, attendance, notifications, calls, alerts, env, conns, groups>>

\* "trip.distance_traveled += dist_decimal".
AddDistance(total, dist) == total + dist

\* "int((timezone.now() - trip.started_at).total_seconds() / 60)".
DurationMinutes(started_at) == ((now - started_at) * TickSeconds) \div 60

\* "except Exception as e: print(...)": what leaves the telemetry block when
\* something in it raises.
TelemetryExcept_Propagates(w, sent) ==
    /\ Respond(w, [op |-> "location", code |-> 500, detail |-> "telemetry raised",
                   trip |-> frame[w].trip, log |-> "none"])
    /\ inbox' = inbox

TelemetryExcept(w, sent) ==
    LocationResponse(w, frame[w].trip, sent, "Telemetry update failed",
                     inbox, frame[w].message)

\* The telemetry block up to trip.save(update_fields=['distance_traveled',
\* 'duration_minutes', 'updated_at']); raises = TRUE: calculate_distance or the
\* arithmetic raised, which the block's except clause swallows.
UpdateLocation_TripStats(w, raises, sent2) ==
    /\ pc[w] = "loc_trip_stats"
    /\ LET t == frame[w].trip
           dist == calculate_distance(PointOf(frame[w].previous[1]), PointOf(frame[w].location))
           trip == [frame[w].tripObj EXCEPT
                      !.distance_traveled = AddDistance(@, dist),
                      !.duration_minutes =
                          IF frame[w].tripObj.started_at # Null
                            THEN DurationMinutes(frame[w].tripObj.started_at[1]) ELSE @]
       IN IF raises
            THEN /\ TelemetryExcept(w, sent2)
                 /\ UNCHANGED trips
            ELSE /\ trips' = [trips EXCEPT ![t].distance_traveled = trip.distance_traveled,
                                           ![t].duration_minutes = trip.duration_minutes]
                 /\ frame' = [frame EXCEPT ![w].tripObj = trip]
                 /\ Goto(w, "loc_bus_stats")
                 /\ resp' = NoResp
                 /\ inbox' = inbox
    /\ UNCHANGED <<now, buses, locations, attendance, notifications, calls, alerts, env, conns, groups>>

\* "time_diff = (location.created_at - previous.created_at).total_seconds() / 3600",
\* added when 0 < time_diff < 1; the column keeps hundredths of an hour.
AddDuration(total, seconds) ==
    IF seconds > 0 /\ seconds < 3600 THEN total + (seconds * 100 + 1800) \div 3600 ELSE total

\* The telemetry block's bus part: trip.bus is the instance the serializer
\* loaded; trip.bus.save(update_fields=['total_distance_km',
\* 'total_duration_hours', 'updated_at']); then the view's last statements.
UpdateLocation_BusStats(w, sent2) ==
    /\ pc[w] = "loc_bus_stats"
    /\ LET b == frame[w].tripObj.bus
           dist == calculate_distance(PointOf(frame[w].previous[1]), PointOf(frame[w].location))
           seconds == (frame[w].location.created_at - frame[w].previous[1].created_at) * TickSeconds
           bus == [total_distance_km |-> AddDistance(frame[w].busObj.total_distance_km, dist),
                   total_duration_hours |-> AddDuration(frame[w].busObj.total_duration_hours, seconds)]
       IN /\ buses' = [buses EXCEPT ![b] = bus]
          /\ LocationResponse(w, frame[w].trip, sent2, "none", inbox, frame[w].message)
    /\ UNCHANGED <<now, trips, locations, attendance, notifications, calls, alerts, env, conns, groups>>

\* BusLocationConsumer.save_and_broadcast_location:
\* Trip.objects.filter(bus_id=..., status=IN_PROGRESS).first() under
\* Meta.ordering = ['-scheduled_start'] (the trip created last), and
\* "if not trip: return".
ActiveTripOfBus(b) ==
    LET ids == {t \in TripIds : trips[t].bus = b /\ trips[t].status = IN_PROGRESS}
    IN IF ids = {} THEN Null ELSE Some(CHOOSE t \in ids : \A u \in ids : u <= t)

BusLocation_FindTrip(w, b, pt) ==
    /\ Begin(w)
    /\ IF ActiveTripOfBus(b) = Null
         THEN Respond(w, [op |-> "ws_location", code |-> 0, detail |-> "returned", bus |-> b])
         ELSE /\ frame' = [frame EXCEPT ![w] =
                    [op |-> "ws_location", bus |-> b, trip |-> ActiveTripOfBus(b)[1],
                     tripObj |-> trips[ActiveTripOfBus(b)[1]], point |-> pt]]
              /\ Goto(w, "ws_create")
              /\ resp' = NoResp
    /\ UNCHANGED <<now, db, alerts, env, sockets>>

\* The consumers' own haversine(lon1, lat1, lon2, lat2), radius 6371 km, in
\* the units of calculate_distance: 0.01 degree in, 0.01 km out (the two
\* decimals of 'distance_km'); distances that differ on the grid differ here.
haversine(lon1, lat1, lon2, lat2) ==
    LET dlon == Abs(lon2 - lon1)
        dlat == Abs(lat2 - lat1)
        chord == ISqrt(10000 * (dlat * dlat + dlon * dlon), 100 * (dlat + dlon))
    IN (EarthRadiusKm * 355 * chord + 1017000) \div 2034000

\* trip.route.stops.all() under Meta.ordering = ['sequence']: the sequence
\* number of the k-th stop.
StopSequence(k) ==
    CHOOSE q \in DOMAIN stops : Cardinality({x \in DOMAIN stops : x < q}) = k - 1

\* The loop with "<=": a later stop at the same distance replaces the first.
RECURSIVE NearestStop_LastWins(_, _, _)
NearestStop_LastWins(bus_lat, bus_lng, n) ==
    IF n = 0 THEN Null
    ELSE LET rest == NearestStop_LastWins(bus_lat, bus_lng, n - 1)
             stop == stops[StopSequence(n)]
             dist == haversine(bus_lng, bus_lat, stop[2], stop[1])
         IN IF rest = Null \/ dist <= rest[1].distance_km
              THEN Some([sequence |-> StopSequence(n), distance_km |-> dist])
              ELSE rest

\* The nearest-stop loop over the first n stops: next_stop_data starts as
\* None and min_dist as infinity, and a stop replaces them only when it is
\* strictly closer ("if dist < min_dist").
RECURSIVE NearestStop(_, _, _)
NearestStop(bus_lat, bus_lng, n) ==
    IF n = 0 THEN Null
    ELSE LET rest == NearestStop(bus_lat, bus_lng, n - 1)
             stop == stops[StopSequence(n)]
             dist == haversine(bus_lng, bus_lat, stop[2], stop[1])
         IN IF rest = Null \/ dist < rest[1].distance_km
              THEN Some([sequence |-> StopSequence(n), distance_km |-> dist])
              ELSE rest

\* next_stop_data for a bus at point pt.
next_stop(pt) == NearestStop(pt[1], pt[2], Cardinality(DOMAIN stops))

\* save_and_broadcast_location, second half: LocationUpdate.objects.create,
\* the nearest stop, and the two group_sends (trip_<id>, bus_profile_<bus>);
\* sent = FALSE: a group_send raised out of the consumer.
BusLocation_Create(w, sent) ==
    /\ pc[w] = "ws_create"
    /\ LET location == NewLocation(frame[w].trip, frame[w].bus, frame[w].point)
           message == LocationMessage(frame[w].trip, location, Len(locations) + 1)
       IN /\ locations' = Append(locations, location)
          /\ IF sent
               THEN /\ Respond(w, [op |-> "ws_location", code |-> 0, detail |-> "broadcast",
                                   bus |-> frame[w].bus, point |-> frame[w].point,
                                   next_stop |-> next_stop(frame[w].point)])
                    /\ inbox' = group_send(group_send(inbox, groups.trip[frame[w].trip], message),
                                           groups.bus_profile[frame[w].bus], message)
               ELSE /\ Respond(w, [op |-> "ws_location", code |-> 0, detail |-> "group_send raised",
                                   bus |-> frame[w].bus])
                    /\ inbox' = inbox
    /\ UNCHANGED <<now, trips, buses, attendance, notifications, calls, alerts, env, conns, groups>>

(* ----------------------------- attendance ---------------------------- *)
\* settings.FACE_RECOGNITION_TOLERANCE and FACE_RECOGNITION_MIN_CONFIDENCE
\* (defaults 0.6 and 0.7), in tenths like the encodings.
FACE_RECOGNITION_TOLERANCE == 6
FACE_RECOGNITION_MIN_CONFIDENCE == 7

\* face_recognition.face_distance([known], scan)[0].
face_distance(known, scan) == Abs(known - scan)

\* The loop of match_face over student_encodings[1..n]: the pair
\* <<best_match, best_distance>>, replaced only on a strictly smaller distance.
RECURSIVE BestMatch(_, _, _)
BestMatch(student_encodings, scan_encoding, n) ==
    IF n = 0 THEN Null
    ELSE LET rest == BestMatch(student_encodings, scan_encoding, n - 1)
             d == face_distance(student_encodings[n].encoding, scan_encoding)
         IN IF rest = Null \/ d < rest[1].distance
              THEN Some([student_id |-> student_encodings[n].student_id, distance |-> d])
              ELSE rest

\* match_face(image_file, student_encodings).
match_face(photo, student_encodings) ==
    IF ~FACE_RECOGNITION_AVAILABLE
      THEN [success |-> TRUE, student_id |-> student_encodings[1].student_id,
            confidence |-> 9, error |-> "none"]
    ELSE IF Len(photo) = 0
      THEN [success |-> FALSE, student_id |-> "none", confidence |-> 0,
            error |-> "No face detected"]
    ELSE LET best == BestMatch(student_encodings, photo[1], Len(student_encodings))[1]
             confidence == 10 - best.distance
         IN IF best.distance <= FACE_RECOGNITION_TOLERANCE
               /\ confidence >= FACE_RECOGNITION_MIN_CONFIDENCE
              THEN [success |-> TRUE, student_id |-> best.student_id,
                    confidence |-> confidence, error |-> "none"]
              ELSE [success |-> FALSE, student_id |-> "none", confidence |-> confidence,
                    error |-> "No matching student found"]

\* The encodings of the active students on the route, as FaceScanSerializer.create
\* collects them.
RosterEncodings(r) ==
    SelectSeq(FaceEncodings, LAMBDA e : e.student_id \in ActiveStudentsOn(r))

\* Both serializers: Trip.objects.get(id=trip_id, status=TripStatus.IN_PROGRESS).
AttendanceTripFound(t) == t \in TripIds /\ trips[t].status = IN_PROGRESS

\* FaceScanSerializer.create up to the matched student:
\* Trip.objects.get(id=trip_id, status=IN_PROGRESS), the roster, match_face.
FaceScan_Match(w, t, event_type, photo) ==
    /\ Begin(w)
    /\ IF ~AttendanceTripFound(t)
         THEN Respond(w, [op |-> "scan", code |-> 400, detail |-> "Active trip not found."])
       ELSE IF RosterEncodings(trips[t].route) = <<>>
         THEN Respond(w, [op |-> "scan", code |-> 400, detail |-> "No students with face encodings"])
       ELSE LET result == match_face(photo, RosterEncodings(trips[t].route))
            IN IF ~result.success
                 THEN Respond(w, [op |-> "scan", code |-> 400, detail |-> result.error])
                 ELSE /\ frame' = [frame EXCEPT ![w] =
                            [op |-> "scan", trip |-> t, tripObj |-> trips[t],
                             student |-> result.student_id, event_type |-> event_type,
                             confidence_score |-> result.confidence, is_manual |-> FALSE,
                             scan_photo |-> photo]]
                      /\ Goto(w, "att_check")
                      /\ resp' = NoResp
    /\ UNCHANGED <<now, db, alerts, env, sockets>>

\* ManualAttendanceSerializer.create up to the trip and the student.
ManualAttendance_Get(w, t, s, event_type) ==
    /\ Begin(w)
    /\ IF ~AttendanceTripFound(t)
         THEN Respond(w, [op |-> "manual", code |-> 400, detail |-> "Active trip not found."])
         ELSE /\ frame' = [frame EXCEPT ![w] =
                    [op |-> "manual", trip |-> t, tripObj |-> trips[t],
                     student |-> s, event_type |-> event_type,
                     confidence_score |-> 10, is_manual |-> TRUE, scan_photo |-> Null]]
              /\ Goto(w, "att_check")
              /\ resp' = NoResp
    /\ UNCHANGED <<now, db, alerts, env, sockets>>

\* The duplicate check left out.
AttendanceExists_Never(s, t, e) == FALSE

\* "Attendance.objects.filter(student=..., trip=..., event_type=...).exists()".
AttendanceExists(s, t, e) ==
    \E a \in BagToSet(attendance) : a.student = s /\ a.trip = t /\ a.event_type = e

\* Both serializers: the duplicate check.
Attendance_Check(w) ==
    /\ pc[w] = "att_check"
    /\ IF AttendanceExists(frame[w].student, frame[w].trip, frame[w].event_type)
         THEN Respond(w, [op |-> frame[w].op, code |-> 400, detail |-> "already"])
         ELSE Goto(w, "att_create") /\ resp' = NoResp /\ UNCHANGED frame
    /\ UNCHANGED <<now, db, calls, alerts, env, sockets>>

\* Both serializers: Attendance.objects.create(...).
Attendance_Create(w) ==
    /\ pc[w] = "att_create"
    /\ attendance' = attendance (+) SetToBag({
          [student |-> frame[w].student, trip |-> frame[w].trip,
           event_type |-> frame[w].event_type,
           confidence_score |-> frame[w].confidence_score,
           is_manual |-> frame[w].is_manual, scan_photo |-> frame[w].scan_photo]})
    /\ Goto(w, "att_counters")
    /\ resp' = NoResp
    /\ UNCHANGED <<now, trips, buses, locations, notifications, frame, calls, alerts, env, sockets>>

\* "if event_type == CHECKIN: trip.students_boarded += 1 else: trip.students_dropped += 1"
\* on the instance fetched at the start of the handler.
CountEvent(trip, event_type) ==
    IF event_type = "checkin"
      THEN [trip EXCEPT !.students_boarded = @ + 1]
      ELSE [trip EXCEPT !.students_dropped = @ + 1]

\* send_push_notification(user, ...): False without a token; True without
\* any send when Firebase is not initialised ("[MOCK PUSH]"); otherwise
\* what messaging.send did (user not in delivered: it raised, False).
send_push_notification(user, delivered) ==
    IF ~HasFcmToken[user] THEN FALSE
    ELSE IF ~FIREBASE_INITIALIZED THEN TRUE
    ELSE user \in delivered

\* send_attendance_notification(attendance): one row per active Parent of the
\* student, stamped is_pushed when the push succeeded.
AttendanceNotifications(s, t, event_type, delivered) ==
    LET parents == SelectSeq(Parents, LAMBDA r : r.student = s /\ r.is_active)
    IN SetToBag({[user |-> parents[i].user, notification_type |-> event_type,
                  student |-> s, trip |-> t,
                  is_pushed |-> send_push_notification(parents[i].user, delivered)]
                 : i \in 1..Len(parents)})

\* Both serializers: trip.save(update_fields=['students_boarded',
\* 'students_dropped']), send_attendance_notification, and the view's 201.
Attendance_Counters(w, delivered) ==
    /\ pc[w] = "att_counters"
    /\ LET t == frame[w].trip
           trip == CountEvent(frame[w].tripObj, frame[w].event_type)
       IN /\ trips' = [trips EXCEPT ![t].students_boarded = trip.students_boarded,
                                    ![t].students_dropped = trip.students_dropped]
          /\ notifications' = notifications (+)
                AttendanceNotifications(frame[w].student, t, frame[w].event_type, delivered)
          /\ Respond(w, [op |-> frame[w].op, code |-> 201, detail |-> "created"])
    /\ UNCHANGED <<now, buses, locations, attendance, calls, alerts, env, sockets>>

(* ------------------------------ emergency ------------------------------ *)
\* user.school_memberships: the schools of the user's SchoolMembership rows,
\* in row order (is_active is not looked at).
SchoolsOf(user) ==
    LET rows == SelectSeq(Memberships, LAMBDA m : m.user = user)
    IN [i \in 1..Len(rows) |-> rows[i].school]

\* EmergencyAlert.objects.create(school=..., trip=..., raised_by=user): the
\* model's defaults for the rest (status ACTIVE, nobody acknowledged or
\* resolved, empty notes).
NewAlert(school, trip_id, user) ==
    [school |-> school, trip |-> trip_id, raised_by |-> user, status |-> ACTIVE,
     acknowledged_by |-> Null, acknowledged_at |-> Null,
     resolved_by |-> Null, resolved_at |-> Null, resolution_notes |-> ""]

\* EmergencyAlertViewSet.raise_alert with RaiseEmergencySerializer.create.
\* trip_id is Null (not sent) or a trip's id.  "school = trip.school": the
\* Trip model declares no school and its base class is outside this code, so
\* the attribute either is missing (has_school = FALSE: AttributeError) or is
\* the school of the trip's bus.  The alert is created, and then
\* _send_emergency_notifications begins with "from apps.notifications.services
\* import NotificationService", a name services.py does not define: the
\* import raises before any notification is sent, the alert row stays.
raise_alert(w, user, trip_id, has_school) ==
    /\ Begin(w)
    /\ LET found == trip_id # Null /\ trip_id[1] \in TripIds
           trip == IF found THEN trip_id ELSE Null
           memberships == SchoolsOf(user)
           school == IF found THEN Some(BusSchool[trips[trip_id[1]].bus])
                     ELSE IF Len(memberships) > 0 THEN Some(memberships[1])
                     ELSE Null
       IN IF found /\ ~has_school
            THEN /\ Respond(w, [op |-> "raise", code |-> 500, detail |-> "AttributeError",
                                trip_id |-> trip_id])
                 /\ alerts' = alerts
            ELSE IF school = Null
            THEN /\ Respond(w, [op |-> "raise", code |-> 400,
                                detail |-> "Could not determine school for emergency",
                                trip_id |-> trip_id])
                 /\ alerts' = alerts
            ELSE /\ Respond(w, [op |-> "raise", code |-> 500, detail |-> "ImportError",
                                trip_id |-> trip_id])
                 /\ alerts' = Append(alerts, NewAlert(school[1], trip, user))
    /\ UNCHANGED <<now, db, env, sockets>>

\* self.get_object(): the alert with this id among the alerts of the schools
\* the user has a membership in.
AlertVisible(user, a) ==
    /\ a \in 1..Len(alerts)
    /\ \E i \in 1..Len(SchoolsOf(user)) : SchoolsOf(user)[i] = alerts[a].school

\* What the client is sent of an alert.
AlertBody(alert) ==
    [status |-> alert.status,
     acknowledged_by |-> alert.acknowledged_by, acknowledged_at |-> alert.acknowledged_at,
     resolved_by |-> alert.resolved_by, resolved_at |-> alert.resolved_at,
     resolution_notes |-> alert.resolution_notes]

\* A guard that lets every alert through.
AcknowledgeAllowed_Always(status) == TRUE

\* EmergencyAlertViewSet.acknowledge: "if alert.status != ACTIVE: 400".
AcknowledgeAllowed(status) == status = ACTIVE

\* EmergencyAlertViewSet.acknowledge up to the serializer.
acknowledge_get(w, user, a) ==
    /\ Begin(w)
    /\ IF ~AlertVisible(user, a)
         THEN Respond(w, [op |-> "acknowledge", code |-> 404, detail |-> "Not found",
                          alert |-> a])
         ELSE IF ~AcknowledgeAllowed(alerts[a].status)
         THEN Respond(w, [op |-> "acknowledge", code |-> 400,
                          detail |-> "Alert is not in active status", alert |-> a])
         ELSE /\ frame' = [frame EXCEPT ![w] =
                     [op |-> "acknowledge", alert |-> a, alertObj |-> alerts[a], user |-> user]]
              /\ Goto(w, "acknowledge_save")
              /\ resp' = NoResp
    /\ UNCHANGED <<now, db, alerts, env, sockets>>

\* AcknowledgeEmergencySerializer.update on the instance the view fetched:
\* three fields are set and instance.save() writes every column of the row.
acknowledge_save(w) ==
    /\ pc[w] = "acknowledge_save"
    /\ LET a == frame[w].alert
           instance == [frame[w].alertObj EXCEPT !.status = ACKNOWLEDGED,
                                                 !.acknowledged_by = Some(frame[w].user),
                                                 !.acknowledged_at = Some(now)]
       IN /\ alerts' = [alerts EXCEPT ![a] = instance]
          /\ Respond(w, [op |-> "acknowledge", code |-> 200, detail |-> "Emergency acknowledged",
                         alert |-> a, body |-> AlertBody(instance)])
    /\ UNCHANGED <<now, db, calls, env, sockets>>

\* EmergencyAlertViewSet.resolve: "if alert.status == RESOLVED: 400".
ResolveAllowed(status) == status # RESOLVED

\* EmergencyAlertViewSet.resolve up to the serializer; status is the terminal
\* status asked for (RESOLVED when the request names none).
resolve_get(w, user, a, status, resolution_notes) ==
    /\ Begin(w)
    /\ IF ~AlertVisible(user, a)
         THEN Respond(w, [op |-> "resolve", code |-> 404, detail |-> "Not found", alert |-> a])
         ELSE IF ~ResolveAllowed(alerts[a].status)
         THEN Respond(w, [op |-> "resolve", code |-> 400,
                          detail |-> "Alert is already resolved", alert |-> a])
         ELSE /\ frame' = [frame EXCEPT ![w] =
                     [op |-> "resolve", alert |-> a, alertObj |-> alerts[a], user |-> user,
                      status |-> status, resolution_notes |-> resolution_notes]]
              /\ Goto(w, "resolve_save")
              /\ resp' = NoResp
    /\ UNCHANGED <<now, db, alerts, env, sockets>>

\* ResolveEmergencySerializer.update on the instance the view fetched, then
\* instance.save() of the whole row.
resolve_save(w) ==
    /\ pc[w] = "resolve_save"
    /\ LET a == frame[w].alert
           instance == [frame[w].alertObj EXCEPT !.status = frame[w].status,
                                                 !.resolved_by = Some(frame[w].user),
                                                 !.resolved_at = Some(now),
                                                 !.resolution_notes = frame[w].resolution_notes]
       IN /\ alerts' = [alerts EXCEPT ![a] = instance]
          /\ Respond(w, [op |-> "resolve", code |-> 200, detail |-> "Emergency resolved",
                         alert |-> a, body |-> AlertBody(instance)])
    /\ UNCHANGED <<now, db, calls, env, sockets>>

\* The ModelViewSet's own PATCH /alerts/<id>/ (partial_update) by any
\* authenticated member of the school: 'status' is not among the
\* serializer's read_only_fields, so the request may name any status.
partial_update_get(w, user, a, status) ==
    /\ Begin(w)
    /\ IF ~AlertVisible(user, a)
         THEN Respond(w, [op |-> "partial_update", code |-> 404, detail |-> "Not found",
                          alert |-> a])
         ELSE /\ frame' = [frame EXCEPT ![w] =
                     [op |-> "partial_update", alert |-> a, alertObj |-> alerts[a],
                      status |-> status]]
              /\ Goto(w, "partial_update_save")
              /\ resp' = NoResp
    /\ UNCHANGED <<now, db, alerts, env, sockets>>

\* ModelSerializer.update: setattr for the validated fields, instance.save().
partial_update_save(w) ==
    /\ pc[w] = "partial_update_save"
    /\ LET a == frame[w].alert
           instance == [frame[w].alertObj EXCEPT !.status = frame[w].status]
       IN /\ alerts' = [alerts EXCEPT ![a] = instance]
          /\ Respond(w, [op |-> "partial_update", code |-> 200, detail |-> "updated",
                         alert |-> a, body |-> AlertBody(instance)])
    /\ UNCHANGED <<now, db, calls, env, sockets>>

(* ------------------------------ websockets ----------------------------- *)
\* A reply sent down one socket only (trip_info, initial_data).
DirectMessage(type, t) == [type |-> type, trip |-> t, point |-> <<>>, timestamp |-> <<>>]

\* channel_layer.group_add(group, channel_name) on one of the three kinds of
\* group (trip_<id>, bus_profile_<id>, user_<id>).
group_add(kind, key, c) ==
    [groups EXCEPT ![kind] = [@ EXCEPT ![key] = @ \cup {c}]]

\* TripTrackingConsumer.connect (ws/trip/<trip_id>/): closes the socket when
\* scope['user'] is missing or not authenticated; otherwise joins trip_<id>,
\* accepts, and sends trip_info when the trip exists.
TripTrackingConsumer_connect(c, t) ==
    /\ conns[c] = "new"
    /\ IF ConnUser[c] = Null
         THEN /\ conns' = [conns EXCEPT ![c] = "closed"]
              /\ UNCHANGED <<groups, inbox>>
         ELSE /\ groups' = group_add("trip", t, c)
              /\ conns' = [conns EXCEPT ![c] = "open"]
              /\ inbox' = IF t \in TripIds
                            THEN [inbox EXCEPT ![c] = @ (+) SetToBag({DirectMessage("trip_info", t)})]
                            ELSE inbox
    /\ resp' = NoResp
    /\ UNCHANGED <<now, db, pc, frame, calls, alerts, env>>

\* BusProfileConsumer.connect: joins bus_profile_<bus_id>, accepts and sends
\* initial_data; scope['user'] is not read.
BusProfileConsumer_connect(c, b) ==
    /\ conns[c] = "new"
    /\ groups' = group_add("bus_profile", b, c)
    /\ conns' = [conns EXCEPT ![c] = "open"]
    /\ inbox' = [inbox EXCEPT ![c] = @ (+) SetToBag({DirectMessage("initial_data", 0)})]
    /\ resp' = NoResp
    /\ UNCHANGED <<now, db, pc, frame, calls, alerts, env>>

\* UserConsumer.connect (ws/user/notifications/): closes the socket when the
\* user is missing or not authenticated; otherwise joins user_<user.id>.
UserConsumer_connect(c) ==
    /\ conns[c] = "new"
    /\ IF ConnUser[c] = Null
         THEN /\ conns' = [conns EXCEPT ![c] = "closed"]
              /\ groups' = groups
         ELSE /\ groups' = group_add("user", ConnUser[c][1], c)
              /\ conns' = [conns EXCEPT ![c] = "open"]
    /\ resp' = NoResp
    /\ UNCHANGED <<now, db, pc, frame, calls, alerts, env, inbox>>

\* disconnect of any of the three consumers: group_discard from the group
\* the connection joined (it joined one group at most).
disconnect(c) ==
    /\ conns[c] = "open"
    /\ conns' = [conns EXCEPT ![c] = "closed"]
    /\ groups' = [kind \in DOMAIN groups |->
                    [key \in DOMAIN groups[kind] |-> groups[kind][key] \ {c}]]
    /\ resp' = NoResp
    /\ UNCHANGED <<now, db, pc, frame, calls, alerts, env, inbox>>

\* What a consumer's receive did, as the step's output.
Received(c, type, reply) ==
    resp' = [worker |-> c, op |-> "receive", code |-> 0, detail |-> reply, type |-> type]

\* A reply of one message down the socket of c.
send(c, message) == [inbox EXCEPT ![c] = @ (+) SetToBag({message})]

\* TripTrackingConsumer.receive: 'ping' is answered with pong; 'get_location'
\* with trip_info from get_trip_data, whose latest_location carries the
\* nearest stop to the latest stored point of the trip.
TripTrackingConsumer_receive(c, type) ==
    /\ conns[c] = "open"
    /\ BagCardinality(inbox[c]) < MaxInbox
    /\ \E t \in TripTopics :
          /\ c \in groups.trip[t]
          /\ IF type = "ping"
               THEN /\ inbox' = send(c, DirectMessage("pong", 0))
                    /\ Received(c, type, "pong")
               ELSE /\ inbox' = send(c, DirectMessage("trip_info", t))
                    /\ IF t \in TripIds /\ LatestLocation(t) # Null
                         THEN resp' = [worker |-> c, op |-> "trip_info", code |-> 0,
                                       detail |-> "trip_info", type |-> type,
                                       point |-> PointOf(LatestLocation(t)[1]),
                                       next_stop |-> next_stop(PointOf(LatestLocation(t)[1]))]
                         ELSE Received(c, type, "trip_info")
    /\ UNCHANGED <<now, db, pc, frame, calls, alerts, env, conns, groups>>

\* BusProfileConsumer.receive: only 'refresh' is handled (refresh_data);
\* any other message, 'ping' included, gets no reply.
BusProfileConsumer_receive(c, type) ==
    /\ conns[c] = "open"
    /\ BagCardinality(inbox[c]) < MaxInbox
    /\ \E b \in Buses : c \in groups.bus_profile[b]
    /\ IF type = "refresh"
         THEN /\ inbox' = send(c, DirectMessage("refresh_data", 0))
              /\ Received(c, type, "refresh_data")
         ELSE /\ inbox' = inbox
              /\ Received(c, type, "none")
    /\ UNCHANGED <<now, db, pc, frame, calls, alerts, env, conns, groups>>

\* UserConsumer.receive: 'ping' is answered with pong.
UserConsumer_receive(c, type) ==
    /\ conns[c] = "open"
    /\ BagCardinality(inbox[c]) < MaxInbox
    /\ \E u \in Users : c \in groups.user[u]
    /\ IF type = "ping"
         THEN /\ inbox' = send(c, DirectMessage("pong", 0))
              /\ Received(c, type, "pong")
         ELSE /\ inbox' = inbox
              /\ Received(c, type, "none")
    /\ UNCHANGED <<now, db, pc, frame, calls, alerts, env, conns, groups>>

(* ------------------------------ clock ---------------------------------- *)
\* timezone.now() advances.
Tick ==
    /\ now < MaxTime
    /\ now' = now + 1
    /\ resp' = NoResp
    /\ UNCHANGED <<db, pc, frame, calls, alerts, env, sockets>>

Next ==
    \/ \E w \in Workers, b \in Buses, r \in Routes : StartTrip_Check(w, b, r)
    \/ \E w \in Workers, sent \in BOOLEAN : StartTrip_Create(w, sent)
    \/ \E w \in Workers, t \in 1..(Len(trips) + 1) : EndTrip_Get(w, t)
    \/ \E w \in Workers, sent \in BOOLEAN : EndTrip_Save(w, sent)
    \/ \E w \in Workers, t \in TripIds, pt \in Points : UpdateLocation_GetTrip(w, t, pt)
    \/ \E w \in Workers, sent1, sent2 \in BOOLEAN : UpdateLocation_Create(w, sent1, sent2)
    \/ \E w \in Workers, raises, sent2 \in BOOLEAN : UpdateLocation_TripStats(w, raises, sent2)
    \/ \E w \in Workers, sent2 \in BOOLEAN : UpdateLocation_BusStats(w, sent2)
    \/ \E w \in Workers, b \in Buses, pt \in Points : BusLocation_FindTrip(w, b, pt)
    \/ \E w \in Workers, sent \in BOOLEAN : BusLocation_Create(w, sent)
    \/ \E w \in Workers, t \in TripIds, e \in EventTypes, photo \in Photos :
          FaceScan_Match(w, t, e, photo)
    \/ \E w \in Workers, t \in TripIds, s \in Students, e \in EventTypes :
          ManualAttendance_Get(w, t, s, e)
    \/ \E w \in Workers : Attendance_Check(w)
    \/ \E w \in Workers : Attendance_Create(w)
    \/ \E w \in Workers, delivered \in SUBSET {u \in Users : HasFcmToken[u]} :
          Attendance_Counters(w, delivered)
    \/ Tick

Spec == Init /\ [][Next]_vars

(* ------------------- attendance, in every deployment ------------------- *)
\* One trip in progress; the face_recognition library and Firebase are each
\* present or absent, as the imports at process start found them.
InitAttendance ==
    /\ InitStore
    /\ trips = <<SeedTrip(IN_PROGRESS)>>
    /\ FACE_RECOGNITION_AVAILABLE \in BOOLEAN
    /\ FIREBASE_INITIALIZED \in BOOLEAN
    /\ stops = DefaultStops

NextAttendance ==
    \/ \E w \in Workers, t \in TripIds, e \in EventTypes, photo \in Photos :
          FaceScan_Match(w, t, e, photo)
    \/ \E w \in Workers, t \in TripIds, s \in Students, e \in EventTypes :
          ManualAttendance_Get(w, t, s, e)
    \/ \E w \in Workers : Attendance_Check(w)
    \/ \E w \in Workers : Attendance_Create(w)
    \/ \E w \in Workers, delivered \in SUBSET {u \in Users : HasFcmToken[u]} :
          Attendance_Counters(w, delivered)

SpecAttendance == InitAttendance /\ [][NextAttendance]_vars

(* ------------------------------ emergencies ---------------------------- *)
\* The people who call the emergency endpoints: a conductor of school sc1
\* and a parent without any membership raise; the school's admins answer.
Raisers == {"k1", "u2"}

InitEmergency ==
    /\ InitStore
    /\ trips = <<SeedTrip(IN_PROGRESS)>>
    /\ FACE_RECOGNITION_AVAILABLE = TRUE
    /\ FIREBASE_INITIALIZED = TRUE
    /\ stops = DefaultStops

NextEmergency ==
    \/ \E w \in Workers, user \in Raisers, has_school \in BOOLEAN,
          trip_id \in {Null} \cup {Some(t) : t \in 1..(Len(trips) + 1)} :
          raise_alert(w, user, trip_id, has_school)
    \/ \E w \in Workers, user \in SchoolAdmins, a \in 1..(Len(alerts) + 1) :
          acknowledge_get(w, user, a)
    \/ \E w \in Workers : acknowledge_save(w)
    \/ \E w \in Workers, user \in SchoolAdmins, a \in 1..(Len(alerts) + 1),
          status \in {RESOLVED, FALSE_ALARM}, resolution_notes \in Notes :
          resolve_get(w, user, a, status, resolution_notes)
    \/ \E w \in Workers : resolve_save(w)
    \/ \E w \in Workers, user \in Raisers, a \in 1..(Len(alerts) + 1), status \in EmergencyStatus :
          partial_update_get(w, user, a, status)
    \/ \E w \in Workers : partial_update_save(w)
    \/ Tick

SpecEmergency == InitEmergency /\ [][NextEmergency]_vars

(* --------------------- location fan-out to websockets ------------------ *)
\* One trip in progress; clients open websockets while conductors send
\* positions over HTTP and over the bus websocket.
InitPubSub ==
    /\ InitStore
    /\ trips = <<SeedTrip(IN_PROGRESS)>>
    /\ FACE_RECOGNITION_AVAILABLE = TRUE
    /\ FIREBASE_INITIALIZED = TRUE
    /\ stops = DefaultStops

\* transport/routing.py routes ws/trip/ and ws/bus/.../location/ only; the
\* route to BusProfileConsumer is in the project's ASGI routing.  The
\* documented interface lists bus_profile:{id} among the topic subscription
\* endpoints, so the consumer is taken as reachable.
BusProfileRouted == TRUE

\* The positions sent while websockets are watched: a repeat and a move.
PubSubPoints == {<<0, 0>>, <<1, 0>>}

NextPubSub ==
    \/ \E c \in Conns, t \in 1..(Len(trips) + 1) : TripTrackingConsumer_connect(c, t)
    \/ \E c \in Conns, b \in Buses : BusProfileRouted /\ BusProfileConsumer_connect(c, b)
    \/ \E c \in Conns : UserConsumer_connect(c)
    \/ \E c \in Conns : disconnect(c)
    \/ \E w \in Workers, t \in TripIds, pt \in PubSubPoints : UpdateLocation_GetTrip(w, t, pt)
    \/ \E w \in Workers, sent1, sent2 \in BOOLEAN : UpdateLocation_Create(w, sent1, sent2)
    \/ \E w \in Workers, raises, sent2 \in BOOLEAN : UpdateLocation_TripStats(w, raises, sent2)
    \/ \E w \in Workers, sent2 \in BOOLEAN : UpdateLocation_BusStats(w, sent2)
    \/ \E w \in Workers, b \in Buses, pt \in PubSubPoints : BusLocation_FindTrip(w, b, pt)
    \/ \E w \in Workers, sent \in BOOLEAN : BusLocation_Create(w, sent)

SpecPubSub == InitPubSub /\ [][NextPubSub]_vars

(* ------------------------------ nearest stop --------------------------- *)
\* A route has at most this many stops.
MaxStops == 3

\* Where a stop can be: on the road at either end, or beside it.
StopPoints == {<<0, 0>>, <<2, 0>>, <<1, 1>>}

\* Every stops table of the route: any set of sequence numbers, each with a
\* position (no stop at all included).
StopTables == UNION {[S -> StopPoints] : S \in SUBSET (1..MaxStops)}

\* One trip in progress on a route with any stops table; the conductor's
\* websocket sends positions of bus b1 one after the other (worker w1) and
\* a parent's socket (c1) asks for the trip.
InitNearestStop ==
    /\ InitStore
    /\ trips = <<SeedTrip(IN_PROGRESS)>>
    /\ FACE_RECOGNITION_AVAILABLE = TRUE
    /\ FIREBASE_INITIALIZED = TRUE
    /\ stops \in StopTables

NextNearestStop ==
    \/ \E w \in {"w1"}, b \in {"b1"}, pt \in Points : BusLocation_FindTrip(w, b, pt)
    \/ \E w \in {"w1"}, sent \in BOOLEAN : BusLocation_Create(w, sent)
    \/ \E c \in {"c1"}, t \in 1..(Len(trips) + 1) : TripTrackingConsumer_connect(c, t)
    \/ \E c \in {"c1"}, type \in {"ping", "get_location"} : TripTrackingConsumer_receive(c, type)

SpecNearestStop == InitNearestStop /\ [][NextNearestStop]_vars

(* ------------------------------ heartbeat ------------------------------ *)
\* Clients open the three kinds of socket, send messages and leave.
InitHeartbeat ==
    /\ InitStore
    /\ trips = <<SeedTrip(IN_PROGRESS)>>
    /\ FACE_RECOGNITION_AVAILABLE = TRUE
    /\ FIREBASE_INITIALIZED = TRUE
    /\ stops = DefaultStops

NextHeartbeat ==
    \/ \E c \in Conns, t \in 1..(Len(trips) + 1) : TripTrackingConsumer_connect(c, t)
    \/ \E c \in Conns, b \in Buses : BusProfileRouted /\ BusProfileConsumer_connect(c, b)
    \/ \E c \in Conns : UserConsumer_connect(c)
    \/ \E c \in Conns : disconnect(c)
    \/ \E c \in Conns, type \in {"ping", "get_location"} : TripTrackingConsumer_receive(c, type)
    \/ \E c \in Conns, type \in {"ping", "refresh"} : BusProfileConsumer_receive(c, type)
    \/ \E c \in Conns, type \in {"ping", "other"} : UserConsumer_receive(c, type)

SpecHeartbeat == InitHeartbeat /\ [][NextHeartbeat]_vars

(* ------------------------------ trip events --------------------------- *)
\* One trip in progress; conductors end it (and start others) while
\* guardians open and close their notification sockets.
InitTripEvents ==
    /\ InitStore
    /\ trips = <<SeedTrip(IN_PROGRESS)>>
    /\ FACE_RECOGNITION_AVAILABLE = TRUE
    /\ FIREBASE_INITIALIZED = TRUE
    /\ stops = DefaultStops

NextTripEvents ==
    \/ \E w \in Workers, b \in Buses, r \in Routes : StartTrip_Check(w, b, r)
    \/ \E w \in Workers, sent \in BOOLEAN : StartTrip_Create(w, sent)
    \/ \E w \in Workers, t \in 1..(Len(trips) + 1) : EndTrip_Get(w, t)
    \/ \E w \in Workers, sent \in BOOLEAN : EndTrip_Save(w, sent)
    \/ \E c \in Conns : UserConsumer_connect(c)
    \/ \E c \in Conns : disconnect(c)
    \/ Tick

SpecTripEvents == InitTripEvents /\ [][NextTripEvents]_vars

(* ============================== properties ============================== *)
InProgressTripsOf(b) == {t \in TripIds : trips[t].bus = b /\ trips[t].status = IN_PROGRESS}

\* Number of attendance rows of trip t and event type e, for student s.
AttendanceCount(s, t, e) ==
    LET rows == {a \in BagToSet(attendance) :
                    a.student = s /\ a.trip = t /\ a.event_type = e}
    IN BagCardinality([a \in rows |-> attendance[a]])

EventCount(t, e) ==
    LET rows == {a \in BagToSet(attendance) : a.trip = t /\ a.event_type = e}
    IN BagCardinality([a \in rows |-> attendance[a]])

\* No scan or manual handler is between its insert and its counter update on t.
AttendanceQuiet(t) ==
    \A w \in Workers : ~(pc[w] = "att_counters" /\ frame[w].trip = t)

\* C1: for every bus, at most one trip is in progress in every reachable
\* state, whatever the interleaving of concurrent starts.
C1_OneTripInProgressPerBus ==
    \A b \in Buses : Cardinality(InProgressTripsOf(b)) <= 1

\* C2: for every (student, trip, event_type) at most one attendance row
\* exists in every reachable state, whatever the interleaving of scan and
\* manual calls.
C2_OneAttendancePerTriple ==
    \A s \in Students, t \in TripIds, e \in EventTypes : AttendanceCount(s, t, e) <= 1

\* C3: no ingest loses an increment: the step of an ingest that stores the
\* trip's (the bus's) cumulative distance stores the value currently in the
\* table plus the distance this ingest computed, also when another ingest
\* on the same trip ran in between.
C3_NoLostIncrement ==
    [][\A w \in Workers :
         LET dist == calculate_distance(PointOf(frame[w].previous[1]),
                                        PointOf(frame[w].location))
         IN /\ (pc[w] = "loc_trip_stats" /\ pc'[w] = "loc_bus_stats")
                 => trips'[frame[w].trip].distance_traveled
                      = trips[frame[w].trip].distance_traveled + dist
            /\ (pc[w] = "loc_bus_stats" /\ pc'[w] = "idle")
                 => buses'[frame[w].tripObj.bus].total_distance_km
                      = buses[frame[w].tripObj.bus].total_distance_km + dist]_vars

\* C4: whenever no attendance handler is halfway through trip t,
\* students_boarded is the number of checkin rows of t and students_dropped
\* the number of checkout rows, whatever the interleaving of scans and
\* manual entries.
C4_CountersMatchEvents ==
    \A t \in TripIds :
        AttendanceQuiet(t) =>
            /\ trips[t].students_boarded = EventCount(t, "checkin")
            /\ trips[t].students_dropped = EventCount(t, "checkout")

\* C5: a trip that is COMPLETED or CANCELLED keeps its status in every step
\* of every interleaving of start, end, ingest, scan and manual.
C5_TerminalStatusStays ==
    [][\A t \in TripIds :
         trips[t].status \in {COMPLETED, CANCELLED}
            => trips'[t].status = trips[t].status]_vars

\* C5 witness: an end has just completed a trip while another end, which
\* read the trip in progress, is about to save it again.
C5_Witness ==
    /\ resp.op = "end" /\ resp.detail = "ended"
    /\ \E w \in Workers :
          /\ pc[w] = "end_save"
          /\ frame[w].trip = resp.trip
          /\ trips[frame[w].trip].status = COMPLETED

\* C6: an end called on a trip that is already COMPLETED answers 200 with
\* the stored trip and changes no row (ended_at keeps the first end's
\* value); and the trip an end returns on ending is the trip as stored.
C6_EndIdempotent ==
    [][/\ \A w \in Workers, t \in TripIds :
            (EndTrip_Get(w, t) /\ trips[t].status = COMPLETED)
               => /\ resp'.code = 200
                  /\ resp'.body = TripBody(trips[t])
                  /\ resp'.body.status = COMPLETED
                  /\ trips' = trips
       /\ (resp'.op = "end" /\ resp'.detail = "ended")
            => resp'.body = TripBody(trips'[resp'.trip])]_vars

\* C6 witness: the second end of a trip answered 200 after the clock had
\* moved on, with the ended_at of the first end.
C6_Witness ==
    /\ resp.op = "end" /\ resp.code = 200 /\ resp.detail = "already completed"
    /\ now > 0
    /\ resp.body.ended_at = Some(0)
    /\ trips[resp.trip].ended_at = Some(0)

NoTripInProgress(b) ==
    \A t \in TripIds : trips[t].bus = b => trips[t].status # IN_PROGRESS

C8_AggregatesNonDecreasing ==
    [][\A t \in TripIds :
         /\ trips'[t].distance_traveled >= trips[t].distance_traveled
         /\ trips'[t].duration_minutes >= trips[t].duration_minutes]_vars

\* C9: the first ingest of a trip changes no aggregate; a later ingest at a
\* point other than the previous one adds the distance between the two
\* points to the trip's distance_traveled as the handler read it, and to
\* the bus's total_distance_km, on the HTTP endpoint and on the socket.
C9_IngestAddsDistance ==
    [][\A w \in Workers :
         /\ (pc[w] = "loc_trip_stats" /\ pc'[w] = "loc_bus_stats")
              => trips'[frame[w].trip].distance_traveled
                   = frame[w].tripObj.distance_traveled
                     + calculate_distance(PointOf(frame[w].previous[1]),
                                          PointOf(frame[w].location))
         /\ (pc[w] = "loc_bus_stats" /\ pc'[w] = "idle")
              => buses'[frame[w].tripObj.bus].total_distance_km
                   = frame[w].busObj.total_distance_km
                     + calculate_distance(PointOf(frame[w].previous[1]),
                                          PointOf(frame[w].location))
         /\ (pc[w] = "ws_create" /\ pc'[w] = "idle" /\ resp'.detail = "broadcast"
               /\ LatestLocation(frame[w].trip) # Null)
              => LET dist == calculate_distance(
                                 PointOf(LatestLocation(frame[w].trip)[1]), frame[w].point)
                 IN /\ trips'[frame[w].trip].distance_traveled
                         = frame[w].tripObj.distance_traveled + dist
                    /\ buses'[frame[w].bus].total_distance_km
                         = buses[frame[w].bus].total_distance_km + dist
         /\ (pc[w] \in {"loc_create", "ws_create"} /\ pc'[w] = "idle"
               /\ LatestLocation(frame[w].trip) = Null)
              => trips' = trips /\ buses' = buses]_vars

\* C10: when the telemetry block of an HTTP ingest raises, the call still
\* answers 200 (its last broadcast working) and the LocationUpdate it
\* stored is in the table.
C10_TelemetryFailureSwallowed ==
    [][\A w \in Workers :
         UpdateLocation_TripStats(w, TRUE, TRUE)
            => /\ resp'.op = "location" /\ resp'.code = 200
               /\ \E i \in 1..Len(locations') : locations'[i] = frame[w].location]_vars

\* C10 witness: an ingest whose telemetry raised was answered 200, its
\* point is the trip's latest LocationUpdate and the aggregates are as
\* before.
C10_Witness ==
    /\ resp.op = "location" /\ resp.code = 200 /\ resp.log = "Telemetry update failed"
    /\ Len(locations) >= 2
    /\ trips[resp.trip].distance_traveled = 0

(* ----------------------- attendance: C11 .. C13 ----------------------- *)
\* C11: a scan or manual call whose (student, trip, event_type) already has
\* an attendance row is rejected (400, "already ...") and changes nothing:
\* no attendance row, no counter, no notification; and a row is inserted
\* only by a handler whose duplicate check found none.
C11_DuplicateRejected ==
    [][\A w \in Workers :
         /\ (pc[w] = "att_check"
               /\ AttendanceCount(frame[w].student, frame[w].trip, frame[w].event_type) >= 1
               /\ pc'[w] # "att_check")
              => /\ pc'[w] = "idle" /\ resp'.worker = w
                 /\ resp'.code = 400 /\ resp'.detail = "already"
                 /\ attendance' = attendance /\ trips' = trips
                 /\ notifications' = notifications
         /\ (pc[w] # "att_create" /\ pc'[w] = "att_create")
              => /\ pc[w] = "att_check"
                 /\ AttendanceCount(frame[w].student, frame[w].trip, frame[w].event_type) = 0]_vars

\* C11 witness: a face scan was rejected as a duplicate of a manual entry,
\* and the trip still counts that one boarding.
C11_Witness ==
    /\ resp.op = "scan" /\ resp.code = 400 /\ resp.detail = "already"
    /\ \E a \in BagToSet(attendance) : a.is_manual /\ a.event_type = "checkin"
    /\ trips[1].students_boarded = 1
    /\ BagCardinality(attendance) = 1

\* The smallest face_distance between one encoding and the roster templates.
MinDistance(scan_encoding, student_encodings) ==
    LET ds == {face_distance(student_encodings[i].encoding, scan_encoding)
                  : i \in 1..Len(student_encodings)}
    IN CHOOSE d \in ds : \A x \in ds : d <= x

\* C12: every attendance row a scan created comes from a comparison: the
\* library compared an encoding of the photo with the roster, and the
\* smallest distance d has d <= tolerance and 1 - d >= min_confidence.
C12_ScanFailsClosed ==
    \A a \in BagToSet(attendance) :
        ~a.is_manual =>
            /\ FACE_RECOGNITION_AVAILABLE
            /\ \E i \in 1..Len(a.scan_photo) :
                  LET d == MinDistance(a.scan_photo[i], RosterEncodings(trips[a.trip].route))
                  IN d <= FACE_RECOGNITION_TOLERANCE
                     /\ 10 - d >= FACE_RECOGNITION_MIN_CONFIDENCE

\* C13: no attendance row comes from a scan whose photo showed the face
\* detector more than one face.
C13_MultipleFacesRejected ==
    \A a \in BagToSet(attendance) :
        (FACE_RECOGNITION_AVAILABLE /\ ~a.is_manual) => Len(a.scan_photo) <= 1

\* The users of the active Parent rows of student s.
ActiveGuardians(s) ==
    {Parents[i].user : i \in {j \in 1..Len(Parents) : Parents[j].student = s /\ Parents[j].is_active}}

\* C18: the notify step of an attendance call stores one Notification row
\* per active guardian whatever the push does, raises nothing (the call
\* answers 201), and a row is stamped is_pushed only if the push transport
\* exists and delivered to that user.
C18_PushedOnlyWhenDelivered ==
    [][\A w \in Workers, delivered \in SUBSET {u \in Users : HasFcmToken[u]} :
         Attendance_Counters(w, delivered)
            => LET new == notifications' (-) notifications
               IN /\ resp'.code = 201
                  /\ {n.user : n \in BagToSet(new)} = ActiveGuardians(frame[w].student)
                  /\ BagCardinality(new) = Cardinality(ActiveGuardians(frame[w].student))
                  /\ \A n \in BagToSet(new) :
                        n.is_pushed => (FIREBASE_INITIALIZED /\ n.user \in delivered)]_vars

\* C14: an acknowledge of an alert that is not ACTIVE when the request reads
\* it answers 400 and leaves every alert as it was; an acknowledge that
\* writes read the alert as ACTIVE, answers 200, and the row it writes is
\* ACKNOWLEDGED with acknowledged_by the caller and acknowledged_at now.
C14_AcknowledgeOnlyActive ==
    [][/\ \A w \in Workers, user \in SchoolAdmins, a \in 1..Len(alerts) :
            (acknowledge_get(w, user, a) /\ AlertVisible(user, a) /\ alerts[a].status # ACTIVE)
                => (resp'.code = 400 /\ alerts' = alerts)
       /\ \A w \in Workers :
            acknowledge_save(w)
                => LET a == frame[w].alert
                   IN /\ frame[w].alertObj.status = ACTIVE
                      /\ resp'.code = 200
                      /\ alerts'[a].status = ACKNOWLEDGED
                      /\ alerts'[a].acknowledged_by = Some(frame[w].user)
                      /\ alerts'[a].acknowledged_at = Some(now)
       /\ (resp'.op = "acknowledge" /\ resp'.code = 200)
                => \E w \in Workers : acknowledge_save(w)]_vars

\* A second acknowledge has just been refused: the alert was acknowledged
\* before and is still as the first acknowledge left it.
C14_Witness ==
    /\ resp.op = "acknowledge"
    /\ resp.code = 400
    /\ alerts[resp.alert].status = ACKNOWLEDGED
    /\ alerts[resp.alert].acknowledged_by # Null

\* The terminal statuses.
TerminalStatus == {RESOLVED, FALSE_ALARM}

\* C15: a resolve of an alert that is RESOLVED or FALSE_ALARM when the
\* request reads it answers 400 and changes no alert; a resolve that writes
\* read ACTIVE, ACKNOWLEDGED or RESPONDING and sets the status asked for.
C15_ResolveOnlyOpen ==
    [][/\ \A w \in Workers, user \in SchoolAdmins, a \in 1..Len(alerts),
             status \in TerminalStatus, resolution_notes \in Notes :
            (/\ resolve_get(w, user, a, status, resolution_notes)
             /\ AlertVisible(user, a)
             /\ alerts[a].status \in TerminalStatus)
                => (resp'.code = 400 /\ alerts' = alerts)
       /\ \A w \in Workers :
            resolve_save(w)
                => /\ frame[w].alertObj.status \notin TerminalStatus
                   /\ resp'.code = 200
                   /\ alerts'[frame[w].alert].status = frame[w].status]_vars

\* The edges of the alert life cycle.
StatusEdges ==
    ({ACTIVE} \X {ACKNOWLEDGED, RESOLVED, FALSE_ALARM})
    \cup ({ACKNOWLEDGED} \X {RESPONDING, RESOLVED, FALSE_ALARM})
    \cup ({RESPONDING} \X {RESOLVED, FALSE_ALARM})

\* C16: every change of an alert's status is one of the edges; in
\* particular a RESOLVED or FALSE_ALARM alert keeps its status.
C16_StatusFollowsEdges ==
    [][\A a \in 1..Len(alerts) :
          alerts'[a].status # alerts[a].status
              => <<alerts[a].status, alerts'[a].status>> \in StatusEdges]_vars

\* The number of 'emergency' Notification rows of user u in a bag of rows.
EmergencyCount(bag, u) ==
    LET rows == {n \in BagToSet(bag) : n.user = u /\ n.notification_type = "emergency"}
    IN BagCardinality([n \in rows |-> bag[n]])

\* The notifications user u is owed for an emergency on trip t: one per
\* active Parent row of u for an active student on the trip's route, one per
\* active school_admin / office_staff membership of u in the trip's school.
EmergencyOwed(t, u) ==
    Cardinality({i \in 1..Len(Parents) :
                    /\ Parents[i].student \in ActiveStudentsOn(trips[t].route)
                    /\ Parents[i].is_active
                    /\ Parents[i].user = u})
    + Cardinality({j \in 1..Len(Memberships) :
                    /\ Memberships[j].school = BusSchool[trips[t].bus]
                    /\ Memberships[j].role \in {"school_admin", "office_staff"}
                    /\ Memberships[j].is_active
                    /\ Memberships[j].user = u})

\* C17: a raise that names a stored trip adds, for every user, exactly the
\* notifications that user is owed, and none to anyone else.
C17_EmergencyFanOut ==
    [][\A w \in Workers, user \in Raisers, has_school \in BOOLEAN, t \in TripIds :
          raise_alert(w, user, Some(t), has_school)
              => \A u \in Users :
                    EmergencyCount(notifications', u)
                        = EmergencyCount(notifications, u) + EmergencyOwed(t, u)]_vars

\* The connections subscribed to any topic.
Subscribers ==
    UNION ({groups.trip[t] : t \in TripTopics}
           \cup {groups.bus_profile[b] : b \in Buses}
           \cup {groups.user[u] : u \in Users})

\* C19: no connection without an authenticated user is in the subscriber
\* set of a trip, bus_profile or user topic.
C19_SubscribersAuthenticated ==
    \A c \in Subscribers : ConnUser[c] # Null

\* C20: a connection gains a location_update only by a publish to a topic it
\* is subscribed to at that moment, and never holds two copies of the
\* location_update of one point.
C20_AtMostOnce ==
    [][\A c \in Conns :
          \A m \in BagToSet(inbox'[c]) :
              (m.type = "location_update")
                  => /\ CopiesIn(m, inbox'[c]) <= 1
                     /\ CopiesIn(m, inbox'[c]) > CopiesIn(m, inbox[c])
                            => c \in groups.trip[m.trip]
                                     \cup groups.bus_profile[trips[m.trip].bus]]_vars

\* C21: a step that publishes (the broadcast of a trip start, of a trip end,
\* or either group_send of an ingest) ends its request with success whether
\* or not the publish raised, with the trip created or completed, the point
\* stored, and the aggregates that are due still applied.
C21_PublishNeverFailsRequest ==
    [][/\ \A w \in Workers, sent \in BOOLEAN :
            StartTrip_Create(w, sent)
                => (resp'.code = 201 /\ Len(trips') = Len(trips) + 1)
       /\ \A w \in Workers, sent \in BOOLEAN :
            EndTrip_Save(w, sent)
                => (resp'.code = 200 /\ trips'[frame[w].trip].status = COMPLETED)
       /\ \A w \in Workers, sent1, sent2 \in BOOLEAN :
            UpdateLocation_Create(w, sent1, sent2)
                => /\ Len(locations') = Len(locations) + 1
                   /\ IF TelemetryDue(LatestLocation(frame[w].trip), locations'[Len(locations')])
                        THEN pc'[w] = "loc_trip_stats"
                        ELSE resp'.code = 200
       /\ \A w \in Workers, sent2 \in BOOLEAN :
            UpdateLocation_BusStats(w, sent2) => resp'.code = 200]_vars

\* After the step, every connection subscribed to the topic of trip t or to
\* the bus-profile topic of its bus holds the message.
Published(message, t) ==
    \A c \in groups.trip[t] \cup groups.bus_profile[trips[t].bus] :
        CopiesIn(message, inbox'[c]) >= 1

\* C22: when an ingest ends in success (200 over HTTP, both broadcasts done
\* over the bus websocket), the location_update of the point it stored has
\* reached the subscribers of the trip's topic and of the bus-profile topic
\* of the trip's bus.
C22_IngestPublishesBothTopics ==
    [][/\ \A w \in Workers, sent1, sent2 \in BOOLEAN :
            (UpdateLocation_Create(w, sent1, sent2) /\ resp'.code = 200)
                => Published(LocationMessage(frame[w].trip, locations'[Len(locations')],
                                             Len(locations')), frame[w].trip)
       /\ \A w \in Workers, raises, sent2 \in BOOLEAN :
            (UpdateLocation_TripStats(w, raises, sent2) /\ resp'.code = 200)
                => Published(frame[w].message, frame[w].trip)
       /\ \A w \in Workers, sent2 \in BOOLEAN :
            (UpdateLocation_BusStats(w, sent2) /\ resp'.code = 200)
                => Published(frame[w].message, frame[w].trip)
       /\ \A w \in Workers, sent \in BOOLEAN :
            (BusLocation_Create(w, sent) /\ resp'.detail = "broadcast")
                => Published(LocationMessage(frame[w].trip, locations'[Len(locations')],
                                             Len(locations')), frame[w].trip)]_vars

\* send_trip_notification's recipients: the users of the active Parent rows
\* of the active students on route r.
TripGuardians(r) == UNION {ActiveGuardians(s) : s \in ActiveStudentsOn(r)}

\* The number of Notification rows of user u, of one type, about trip t.
TripNotificationCount(bag, u, type, t) ==
    LET rows == {n \in BagToSet(bag) :
                    n.user = u /\ n.notification_type = type /\ n.trip = t}
    IN BagCardinality([n \in rows |-> bag[n]])

\* C23: a trip start that answers 201 and a trip end that completes a trip
\* and answers 200 each leave one Notification row (trip_started,
\* trip_ended) about that trip for every guardian of the route.
C23_TripEventsStored ==
    [][/\ \A w \in Workers, sent \in BOOLEAN :
            (StartTrip_Create(w, sent) /\ resp'.code = 201)
                => \A u \in TripGuardians(frame[w].route) :
                      TripNotificationCount(notifications', u, "trip_started", Len(trips')) = 1
       /\ \A w \in Workers, sent \in BOOLEAN :
            (EndTrip_Save(w, sent) /\ resp'.code = 200)
                => \A u \in TripGuardians(frame[w].tripObj.route) :
                      TripNotificationCount(notifications', u, "trip_ended", frame[w].trip) = 1]_vars

\* C24: an HTTP ingest that finds an earlier point of the trip leaves
\* trip.duration_minutes at the whole minutes from started_at to now, both
\* when the point moved (the trip-statistics step) and when the distance is
\* 0 and the request ends at once.
C24_DurationRecomputed ==
    [][/\ \A w \in Workers, sent1, sent2 \in BOOLEAN :
            (/\ UpdateLocation_Create(w, sent1, sent2)
             /\ LatestLocation(frame[w].trip) # Null
             /\ trips[frame[w].trip].started_at # Null
             /\ resp'.code = 200)
                => trips'[frame[w].trip].duration_minutes
                      = DurationMinutes(trips[frame[w].trip].started_at[1])
       /\ \A w \in Workers, sent2 \in BOOLEAN :
            (UpdateLocation_TripStats(w, FALSE, sent2) /\ frame[w].tripObj.started_at # Null)
                => trips'[frame[w].trip].duration_minutes
                      = DurationMinutes(frame[w].tripObj.started_at[1])]_vars

\* The step just taken computed a nearest stop: a broadcast of the bus
\* websocket, or a trip_info for a trip with a stored point.
NearestStopComputed ==
    \/ resp.op = "trip_info"
    \/ resp.op = "ws_location" /\ resp.detail = "broadcast"

\* C25: the nearest stop sent out is null exactly when the route has no
\* stop; otherwise it is a stop of the route, no stop of the route is
\* strictly closer to the point, and every stop at the same distance has a
\* higher sequence number.
C25_NearestStopMinimal ==
    NearestStopComputed =>
        LET d(q) == haversine(resp.point[2], resp.point[1], stops[q][2], stops[q][1])
        IN IF DOMAIN stops = {}
             THEN resp.next_stop = Null
             ELSE /\ resp.next_stop # Null
                  /\ resp.next_stop[1].sequence \in DOMAIN stops
                  /\ resp.next_stop[1].distance_km = d(resp.next_stop[1].sequence)
                  /\ \A q \in DOMAIN stops :
                        /\ d(resp.next_stop[1].sequence) <= d(q)
                        /\ d(q) = d(resp.next_stop[1].sequence)
                              => resp.next_stop[1].sequence <= q

\* A nearest stop was sent while another stop of the route is exactly as far
\* from the point.
C25_Witness ==
    /\ NearestStopComputed
    /\ resp.next_stop # Null
    /\ \E q \in DOMAIN stops :
          /\ q # resp.next_stop[1].sequence
          /\ haversine(resp.point[2], resp.point[1], stops[q][2], stops[q][1])
                = resp.next_stop[1].distance_km

\* C26: every attendance row a scan created is not manual, names a student
\* who owns a template at the smallest distance from the (first) encoding of
\* the photo over all templates of the roster, and carries
\* confidence = 1 - that distance.
C26_ScanPicksGlobalMinimum ==
    \A a \in BagToSet(attendance) :
        (a.scan_photo # Null \/ ~a.is_manual) =>
            /\ ~a.is_manual
            /\ Len(a.scan_photo) >= 1
            /\ LET roster == RosterEncodings(trips[a.trip].route)
                   d == MinDistance(a.scan_photo[1], roster)
               IN /\ a.confidence_score = 10 - d
                  /\ \E i \in 1..Len(roster) :
                        /\ roster[i].student_id = a.student
                        /\ face_distance(roster[i].encoding, a.scan_photo[1]) = d

\* C27: on each of the three sockets, handling a ping adds exactly one pong
\* to what that connection was sent and changes no group.
C27_PingPong ==
    [][\A c \in Conns :
          (\/ TripTrackingConsumer_receive(c, "ping")
           \/ BusProfileConsumer_receive(c, "ping")
           \/ UserConsumer_receive(c, "ping"))
              => /\ inbox' = send(c, DirectMessage("pong", 0))
                 /\ groups' = groups]_vars

\* C28: a LocationUpdate row is inserted only while its trip is IN_PROGRESS
\* in the database, and the distance and duration of a trip change only
\* while it is IN_PROGRESS.
C28_PointsOnlyWhileInProgress ==
    [][/\ Len(locations') > Len(locations)
            => trips[locations'[Len(locations')].trip].status = IN_PROGRESS
       /\ \A t \in TripIds :
            (\/ trips'[t].distance_traveled # trips[t].distance_traveled
             \/ trips'[t].duration_minutes # trips[t].duration_minutes)
                => trips[t].status = IN_PROGRESS]_vars

\* C29: the ended_at of a trip, once set, keeps its value, and no
\* connection is sent the trip_ended event of one trip more than once.
C29_EndTakesEffectOnce ==
    [][/\ \A t \in TripIds :
            trips[t].ended_at # Null => trips'[t].ended_at = trips[t].ended_at
       /\ \A c \in Conns, t \in 1..Len(trips') :
            CopiesIn(TripEventMessage("trip_ended", t), inbox'[c]) <= 1]_vars

\* C30: a checkout row of a student on a trip exists only if a checkin row
\* of that student on that trip exists, and no trip has dropped more
\* students than it has boarded.
C30_CheckoutNeedsCheckin ==
    /\ \A s \in Students, t \in TripIds :
          AttendanceExists(s, t, "checkout") => AttendanceExists(s, t, "checkin")
    /\ \A t \in TripIds : trips[t].students_dropped <= trips[t].students_boarded
====
